---- MODULE Spec2Model ----
(***************************************************************************)
(* A model of src/orm.py: the Database connection proxy, the Manager       *)
(* repository and the QueryBuilder over one sqlite table.                  *)
(*                                                                         *)
(* The entity type of the model is                                         *)
(*     class Person(db.Model):                                             *)
(*         name = str; age = int; d = str; _tmp = int                      *)
(*         def __init__(self, name, age, d): ...sets the three fields      *)
(* stored in a file database, so that close() rolls back the pending       *)
(* transaction and keeps what was committed. A second class, Pet, stands   *)
(* for any other table of the same database.                               *)
(*                                                                         *)
(* sqlite3 is the external collaborator; the model gives it the behaviour  *)
(* of the Python driver's default (legacy) transaction control: INSERT,    *)
(* UPDATE and DELETE open a transaction implicitly, SELECT does not,       *)
(* executescript() commits first, close() discards what is pending, and    *)
(* an AUTOINCREMENT key is one more than the largest key ever used         *)
(* (sqlite_sequence), a counter that is transactional like the rows.       *)
(*                                                                         *)
(* src/orm.py lines 164-165 do not parse (the call opened on line 164 is   *)
(* closed at the end of line 165, after a `return`); QueryBuilder.select   *)
(* is modelled with the parenthesis moved back to where the generator      *)
(* expression needs it, every other line is modelled as written.           *)
(***************************************************************************)
EXTENDS Integers, Sequences, FiniteSets, TLC

(* ------------------------------ bounds -------------------------------- *)

\* the table holds keys 1..MaxId: save is not taken once the key counter is MaxId
MaxId == 2
\* the token buffer is not extended beyond MaxTokens tokens
MaxTokens == 8
\* sqlite3.connect hands out the connections 1..MaxConn: no connection is
\* opened while MaxConn connections are open
MaxConn == 2
\* the classes handed to render_schema on its own declare at most MaxFields
\* attributes
MaxFields == 2

(* ------------------------- the entity type ---------------------------- *)

\* vars(Person): the class attributes in declaration order, <<name, type>>
ClassAttrs == << <<"name", "str">>, <<"age", "int">>, <<"d", "str">>, <<"_tmp", "int">> >>

\* the instance attributes Person.__init__ sets, in order (vars(obj) without id)
InstanceAttrs == <<"name", "age", "d">>

\* the characters of the identifiers the model uses (Python strings are
\* sequences of characters; TLC's strings are atoms)
Chars(s) ==
  CASE s = "name" -> <<"n", "a", "m", "e">>
    [] s = "age"  -> <<"a", "g", "e">>
    [] s = "d"    -> <<"d">>
    [] s = "id"   -> <<"i", "d">>
    [] s = "_tmp" -> <<"_", "t", "m", "p">>
    [] s = "foo"  -> <<"f", "o", "o">>
    [] OTHER      -> <<s>>

\* Python's `a in b` for two strings: a is a contiguous part of b
StrIn(a, b) ==
  LET ca == Chars(a)
      cb == Chars(b)
  IN  \E k \in 0..(Len(cb) - Len(ca)) :
        \A j \in 1..Len(ca) : cb[k + j] = ca[j]

\* the field values the records of the model take
Names == {"Bob", "name"}
Ages  == {30, 31}
DVals == {"x", "y"}
\* Python's None / SQL's NULL in a text column
NULL == "<NULL>"

RangeOf(s) == {s[k] : k \in 1..Len(s)}

\* cut_attrs(obj, keys): the attributes of obj whose name is `not in keys`.
\* Manager passes the string 'id' as keys, so the test is Python's substring
\* test on strings.
cut_attrs(attrs, keys) == {a \in attrs : ~StrIn(a, keys)}

(* ----------------------- render_schema (15-22) ------------------------ *)

\* a model class: its __name__ and the items of vars(model), <<key, value>>
\* in declaration order; Person is the class of the header
Person == [name |-> "Person", items |-> ClassAttrs]
\* a second class: class Pet(db.Model): name = str
Pet == [name |-> "Pet", items |-> << <<"name", "str">> >>]

datatypes == [str |-> "text", int |-> "integer", float |-> "real"]

\* a test that forgets the internal marker
iscolAny(key, value) == value \in DOMAIN datatypes
\* key[0] is not '_' and value in datatypes.keys()
iscol(key, value) == Chars(key)[1] # "_" /\ value \in DOMAIN datatypes

\* '%s %s' % (key, datatypes[value])
colrender(key, value) == key \o " " \o datatypes[value]

\* sep.join(strs)
RECURSIVE Join(_, _)
Join(strs, sep) ==
  IF strs = <<>> THEN ""
  ELSE IF Len(strs) = 1 THEN strs[1]
  ELSE strs[1] \o sep \o Join(Tail(strs), sep)

\* [colrender(*i) for i in vars(model).items() if iscol(*i)]
cols(items) ==
  LET kept == SelectSeq(items, LAMBDA i : iscol(i[1], i[2]))
  IN  [k \in 1..Len(kept) |-> colrender(kept[k][1], kept[k][2])]

render_schema(model) ==
  "create table " \o model.name \o " (id integer primary key autoincrement, "
    \o Join(cols(model.items), ", ") \o ");"

(* ------------------------------ state --------------------------------- *)

VARIABLES
  connected,     \* Database.connected
  hasTable,      \* sqlite_master holds table Person (DDL is committed at once)
  rows,          \* the rows of Person as the open connection sees them
  seq,           \* sqlite_sequence of Person as the open connection sees it
  cRows, cSeq,   \* the committed rows and sequence (what the file holds)
  obj,           \* the record in the caller's hands
  query_tokens,  \* QueryBuilder.query_tokens
  lastOp,        \* the operation that ran last
  argInt,        \* the integer argument of the last get / has / limit
  argKw,         \* the keyword arguments of the last filter
  argCols,       \* the positional arguments of the last select
  err,           \* the error the last operation raised, NoError if none
  retRecs,       \* the records the last get / select returned
  retBool,       \* what the last has returned
  assigned,      \* history: the ids save has assigned so far
  live,          \* history: ids assigned by save and not removed by Manager.delete
  gone,          \* history: ids of stored rows that Manager.delete removed, as
                 \* far as the open transaction or the file records the delete
  cGone,         \* history: the part of gone whose delete is committed
  removed,       \* history: ids of stored rows that Manager.delete ever removed
  open,          \* the sqlite3 connections that are open
  conn,          \* Database._connection
  model,         \* the model class handed to render_schema
  retSchema,     \* what the last render_schema call returned
  scripts,       \* the scripts executescript ran so far, in order
  petTable,      \* sqlite_master holds table Pet, the table of a second class
  pc,            \* where each caller stands inside a Database method
  got,           \* the value each caller read last (connected, then a connection)
  raced          \* history: a caller entered a method while another was inside one

dbVars    == <<connected, open, conn, hasTable, rows, seq, cRows, cSeq>>
histVars  == <<assigned, live, gone, removed>>
schemaVars == <<model, retSchema>>
callerVars == <<pc, got, raced>>
vars == <<connected, hasTable, rows, seq, cRows, cSeq, obj, query_tokens,
          lastOp, argInt, argKw, argCols, err, retRecs, retBool,
          assigned, live, gone, cGone, removed, open, conn,
          model, retSchema, scripts, petTable, pc, got, raced>>

NoError == "none"
\* render_schema has not been called
NoScript == ""

\* the callers of the proxy and the connections sqlite3.connect can return
Callers == {1, 2}
\* a caller outside every method of the proxy
Idle == [op |-> "none", at |-> "idle"]
Handles == 1..MaxConn
\* Database._connection is not set before the first connect
NoConn == 0
\* sqlite3.connect(*self.args, **self.kwargs): a connection not open so far
NewConn(op) == CHOOSE h \in Handles \ op : \A g \in Handles \ op : h <= g

\* a getter that connects whatever the flag says
MustConnectAlways(flag) == TRUE
\* `if self.connected: return self._connection`: connect only when the flag
\* is off
MustConnect(flag) == ~flag

\* the connection property (lines 33-40) run without interruption
Connection ==
  /\ MustConnect(connected) => open # Handles
  /\ connected' = TRUE
  /\ open' = IF MustConnect(connected) THEN open \cup {NewConn(open)} ELSE open
  /\ conn' = IF MustConnect(connected) THEN NewConn(open) ELSE conn

\* a record without an id attribute
NoId == 0
NewObj(n, a, dd) == [hasId |-> FALSE, id |-> NoId, name |-> n, age |-> a, d |-> dd]

Ids(rs) == {r.id : r \in rs}
RowOf(rs, i) == CHOOSE r \in rs : r.id = i

\* what an operation hands back: its name, its integer argument (0 when it has
\* none), the error it raised, the records and the truth value it returned
Ret(op, i, e, recs, b) ==
  /\ lastOp' = op
  /\ argInt' = i
  /\ argKw' = <<>>
  /\ argCols' = <<>>
  /\ err' = e
  /\ retRecs' = recs
  /\ retBool' = b

\* the state after db = Database(file) and the declaration of class m
InitOf(m) ==
  /\ connected = FALSE
  /\ open = {} /\ conn = NoConn
  /\ model = m /\ retSchema = NoScript /\ scripts = <<>>
  /\ petTable = FALSE
  /\ pc = [c \in Callers |-> Idle]
  /\ got = [c \in Callers |-> NoConn]
  /\ raced = FALSE
  /\ hasTable = FALSE
  /\ rows = {} /\ seq = 0
  /\ cRows = {} /\ cSeq = 0
  /\ obj = NewObj("Bob", 30, "x")
  /\ query_tokens = <<>>
  /\ lastOp = "init"
  /\ argInt = 0
  /\ argKw = <<>>
  /\ argCols = <<>>
  /\ err = NoError
  /\ retRecs = <<>>
  /\ retBool = FALSE
  /\ assigned = {} /\ live = {} /\ gone = {} /\ cGone = {} /\ removed = {}

Init == InitOf(Person)

(* ------------------------ Database (lines 25-55) ---------------------- *)

\* a close that forgets to reset the flag
FlagKeptAfterClose(flag) == flag
\* self.connected = False, the last line of close
FlagAfterClose(flag) == FALSE

\* a close that keeps what is pending
AfterCloseKeeps(wasConnected, pending, committed) == pending
\* what the next connection sees after self.connection.close(): the committed
\* state when a connection was open, the state as it was when none was
AfterClose(wasConnected, pending, committed) ==
  IF wasConnected THEN committed ELSE pending

\* Database.close: closing the connection discards the pending transaction
Close ==
  /\ Ret("close", 0, NoError, <<>>, FALSE)
  /\ connected' = FlagAfterClose(connected)
  /\ open' = IF connected THEN open \ {conn} ELSE open
  /\ conn' = conn
  /\ rows' = AfterClose(connected, rows, cRows)
  /\ seq' = AfterClose(connected, seq, cSeq)
  /\ gone' = AfterClose(connected, gone, cGone)
  /\ UNCHANGED <<hasTable, cRows, cSeq, cGone, obj, query_tokens, assigned, live, removed>>
  /\ UNCHANGED <<schemaVars, scripts, petTable, callerVars>>

\* Database.commit: self.connection connects when needed, then commits
Commit ==
  /\ Ret("commit", 0, NoError, <<>>, FALSE)
  /\ Connection
  /\ cRows' = rows
  /\ cSeq' = seq
  /\ cGone' = gone
  /\ UNCHANGED <<hasTable, rows, seq, obj, query_tokens, assigned, live, gone, removed>>
  /\ UNCHANGED <<schemaVars, scripts, petTable, callerVars>>

(* ------------------------ Manager (lines 58-115) ---------------------- *)

\* a check that never finds the table
hastableNever == FALSE
\* Manager._hastable: a row of sqlite_master names the table
hastable == hasTable

\* Manager.__init__: when the catalog has no table, executescript(render_schema)
\* commits what is pending, creates the table and commits
ManagerInit ==
  /\ Ret("Manager", 0, NoError, <<>>, FALSE)
  /\ Connection
  /\ hasTable' = TRUE
  /\ cRows' = IF hastable THEN cRows ELSE rows
  /\ cSeq' = IF hastable THEN cSeq ELSE seq
  /\ cGone' = IF hastable THEN cGone ELSE gone
  /\ UNCHANGED <<rows, seq, obj, query_tokens, assigned, live, gone, removed>>
  /\ scripts' = IF hastable THEN scripts ELSE Append(scripts, render_schema(model))
  /\ UNCHANGED <<schemaVars, petTable, callerVars>>

\* Manager(db, Pet): the constructor for the second class; the script of an
\* absent table commits the pending writes to Person as well
PetManagerInit ==
  /\ Ret("Manager(Pet)", 0, NoError, <<>>, FALSE)
  /\ Connection
  /\ petTable' = TRUE
  /\ cRows' = IF petTable THEN cRows ELSE rows
  /\ cSeq' = IF petTable THEN cSeq ELSE seq
  /\ cGone' = IF petTable THEN cGone ELSE gone
  /\ scripts' = IF petTable THEN scripts ELSE Append(scripts, render_schema(Pet))
  /\ UNCHANGED <<hasTable, rows, seq, obj, query_tokens, assigned, live, gone, removed>>
  /\ UNCHANGED <<schemaVars, callerVars>>

\* Manager.has(id): `select id from Person where id = ?` returns a row
has(rs, i) == i \in Ids(rs)

\* the rows of rs as a list, in rowid order
RECURSIVE RowList(_)
RowList(rs) ==
  IF rs = {} THEN <<>>
  ELSE LET m == CHOOSE r \in rs : \A q \in rs : r.id <= q.id
       IN  <<m>> \o RowList(rs \ {m})

\* Manager.all
All ==
  /\ hasTable
  /\ Ret("all", 0, NoError, RowList(rows), FALSE)
  /\ Connection
  /\ UNCHANGED <<hasTable, rows, seq, cRows, cSeq, cGone, obj, query_tokens,
                 assigned, live, gone, removed>>
  /\ UNCHANGED <<schemaVars, scripts, petTable, callerVars>>

\* Manager.get(id): the record of the row with that id, ValueError when
\* fetchone() returns no row
GetFirstRow(rs, i) == IF rs = {} THEN <<>> ELSE <<RowList(rs)[1]>>
GetRecs(rs, i) == IF has(rs, i) THEN <<RowOf(rs, i)>> ELSE <<>>

Get ==
  /\ hasTable
  /\ \E i \in 0..(MaxId + 1) :
       Ret("get", i, IF GetRecs(rows, i) = <<>> THEN "NotFound" ELSE NoError,
           GetRecs(rows, i), FALSE)
  /\ Connection
  /\ UNCHANGED <<hasTable, rows, seq, cRows, cSeq, cGone, obj, query_tokens,
                 assigned, live, gone, removed>>
  /\ UNCHANGED <<schemaVars, scripts, petTable, callerVars>>

Has ==
  /\ hasTable
  /\ \E i \in 0..(MaxId + 1) : Ret("has", i, NoError, <<>>, has(rows, i))
  /\ Connection
  /\ UNCHANGED <<hasTable, rows, seq, cRows, cSeq, cGone, obj, query_tokens,
                 assigned, live, gone, removed>>
  /\ UNCHANGED <<schemaVars, scripts, petTable, callerVars>>

\* the row `insert into Person (keys) values (?...)` adds under key i: a
\* column that is not among the keys is NULL (cut_attrs never cuts age: it
\* is no part of 'id')
InsertedRow(o, keys, i) ==
  [id |-> i,
   name |-> IF "name" \in keys THEN o.name ELSE NULL,
   age |-> o.age,
   d |-> IF "d" \in keys THEN o.d ELSE NULL]

\* Manager.save, the check of lines 95-97
SaveRejectsNothing(o, rs) == FALSE
SaveRejects(o, rs) == o.hasId /\ has(rs, o.id)

\* the key an AUTOINCREMENT insert takes
NextIdReuse(rs, s) ==
  IF rs = {} THEN 1 ELSE 1 + CHOOSE m \in Ids(rs) : \A k \in Ids(rs) : k <= m
NextId(rs, s) == s + 1

\* Manager.save
Save ==
  /\ hasTable
  /\ Connection
  /\ IF SaveRejects(obj, rows)
       THEN /\ Ret("save", 0, "DuplicateId", <<>>, FALSE)
            /\ UNCHANGED <<rows, seq, obj, assigned, live>>
       ELSE /\ seq < MaxId
            /\ Ret("save", 0, NoError, <<>>, FALSE)
            /\ LET i == NextId(rows, seq)
                   keys == cut_attrs(RangeOf(InstanceAttrs), "id")
               IN  /\ rows' = rows \cup {InsertedRow(obj, keys, i)}
                   /\ seq' = i
                   /\ obj' = [obj EXCEPT !.hasId = TRUE, !.id = i]
                   /\ assigned' = assigned \cup {i}
                   /\ live' = live \cup {i}
  /\ UNCHANGED <<hasTable, cRows, cSeq, cGone, query_tokens, gone, removed>>
  /\ UNCHANGED <<schemaVars, scripts, petTable, callerVars>>

\* the row `UPDATE Person SET key = ?, ... WHERE id = ?` leaves from row r
UpdatedRow(r, o, keys) ==
  [id |-> r.id,
   name |-> IF "name" \in keys THEN o.name ELSE r.name,
   age |-> IF "age" \in keys THEN o.age ELSE r.age,
   d |-> IF "d" \in keys THEN o.d ELSE r.d]

\* the rows an UPDATE / DELETE ... WHERE id = ? touches
WhereIdAll(rs, i) == rs
WhereId(rs, i) == {r \in rs : r.id = i}

\* Manager.update: obj.id raises AttributeError on a record without id,
\* before the connection is used
Update ==
  /\ hasTable
  /\ IF ~obj.hasId
       THEN /\ Ret("update", 0, "AttributeError", <<>>, FALSE)
            /\ UNCHANGED <<connected, open, conn, rows>>
       ELSE /\ Ret("update", 0, NoError, <<>>, FALSE)
            /\ Connection
            /\ LET keys == cut_attrs(RangeOf(InstanceAttrs), "id")
                   hit == WhereId(rows, obj.id)
               IN  rows' = (rows \ hit) \cup {UpdatedRow(r, obj, keys) : r \in hit}
  /\ UNCHANGED <<hasTable, seq, cRows, cSeq, cGone, obj, query_tokens,
                 assigned, live, gone, removed>>
  /\ UNCHANGED <<schemaVars, scripts, petTable, callerVars>>

\* Manager.delete
Delete ==
  /\ hasTable
  /\ IF ~obj.hasId
       THEN /\ Ret("delete", 0, "AttributeError", <<>>, FALSE)
            /\ UNCHANGED <<connected, open, conn, rows, live, gone, removed>>
       ELSE /\ Ret("delete", 0, NoError, <<>>, FALSE)
            /\ Connection
            /\ rows' = rows \ WhereId(rows, obj.id)
            /\ live' = live \ {obj.id}
            /\ gone' = IF obj.id \in Ids(rows) THEN gone \cup {obj.id} ELSE gone
            /\ removed' = IF obj.id \in Ids(rows) THEN removed \cup {obj.id} ELSE removed
  /\ UNCHANGED <<hasTable, seq, cRows, cSeq, cGone, obj, query_tokens, assigned>>
  /\ UNCHANGED <<schemaVars, scripts, petTable, callerVars>>

(* ----------------------- the caller's record -------------------------- *)

\* Person(name, age, d): a new record, without id
NewRecordOf(N, A, D) ==
  /\ \E n \in N, a \in A, dd \in D : obj' = NewObj(n, a, dd)
  /\ Ret("new", 0, NoError, <<>>, FALSE)
  /\ UNCHANGED <<dbVars, cGone, query_tokens, histVars>>
  /\ UNCHANGED <<schemaVars, scripts, petTable, callerVars>>

NewRecord == NewRecordOf(Names, Ages, DVals)
\* Person("Bob", 30, "x")
NewPerson == NewRecordOf({"Bob"}, {30}, {"x"})

\* obj.<field> = value
SetField ==
  /\ \/ \E n \in Names : obj' = [obj EXCEPT !.name = n]
     \/ \E a \in Ages : obj' = [obj EXCEPT !.age = a]
     \/ \E dd \in DVals : obj' = [obj EXCEPT !.d = dd]
  /\ obj' # obj
  /\ Ret("set", 0, NoError, <<>>, FALSE)
  /\ UNCHANGED <<dbVars, cGone, query_tokens, histVars>>
  /\ UNCHANGED <<schemaVars, scripts, petTable, callerVars>>

\* obj.id = i, the caller pre-sets an id
SetId ==
  /\ \E i \in 1..MaxId : obj' = [obj EXCEPT !.hasId = TRUE, !.id = i]
  /\ obj' # obj
  /\ Ret("setid", 0, NoError, <<>>, FALSE)
  /\ UNCHANGED <<dbVars, cGone, query_tokens, histVars>>
  /\ UNCHANGED <<schemaVars, scripts, petTable, callerVars>>

RecordStep == NewRecord \/ SetField \/ SetId
ManagerStep == ManagerInit \/ Save \/ Update \/ Delete \/ Get \/ Has \/ All

\* sequences of Manager calls on one connection
NextCrud == RecordStep \/ ManagerStep
SpecCrud == Init /\ [][NextCrud]_vars

\* Manager calls on records Person("Bob", 30, "x"), with Database.commit and
\* Database.close between them
NextDb == NewPerson \/ SetId \/ ManagerStep \/ Commit \/ Close
SpecDb == Init /\ [][NextDb]_vars

(* --------------------- QueryBuilder (lines 118-172) ------------------- *)

EQUAL == "="
NOT_EQUAL == "!="
AND == "AND"
OR == "OR"
ALL == "*"
LIMIT == "limit"

\* Python values passed to filter and limit: an int or a str
PyInt(i) == [t |-> "int", i |-> i, s |-> ""]
PyString(x) == [t |-> "str", i |-> 0, s |-> x]

\* str(value)
PyStr(v) == IF v.t = "int" THEN ToString(v.i) ELSE v.s

\* valid_keyvals.keys(): the class attributes whose name does not start with '_'
valid_keyvals == {a[1] : a \in {c \in RangeOf(ClassAttrs) : Chars(c[1])[1] # "_"}}

\* the loop of filter over kwargs (a sequence of <<key, value>>, in call order)
\* from its k-th item on: the buffer it leaves and the error it raises
RECURSIVE FilterLoop(_, _, _, _, _)
FilterLoop(tokens, comparator, boolean, kwargs, k) ==
  IF k > Len(kwargs) THEN [tokens |-> tokens, err |-> NoError]
  ELSE IF kwargs[k][1] \in valid_keyvals
    THEN FilterLoop(tokens \o <<kwargs[k][1], comparator, PyStr(kwargs[k][2]), boolean>>,
                    comparator, boolean, kwargs, k + 1)
    ELSE [tokens |-> tokens, err |-> "InvalidColumn"]

\* QueryBuilder.filter: the loop, then the last token is dropped
filter(tokens, comparator, boolean, kwargs) ==
  LET looped == FilterLoop(tokens, comparator, boolean, kwargs, 1)
  IN  IF looped.err # NoError THEN looped
      ELSE IF Len(looped.tokens) > 0
        THEN [tokens |-> SubSeq(looped.tokens, 1, Len(looped.tokens) - 1), err |-> NoError]
        ELSE looped

\* QueryBuilder.limit
limit(tokens, num) == tokens \o <<LIMIT, PyStr(num)>>

\* QueryBuilder(Person)
NewBuilder ==
  /\ query_tokens # <<>>
  /\ query_tokens' = <<>>
  /\ Ret("QueryBuilder", 0, NoError, <<>>, FALSE)
  /\ UNCHANGED <<dbVars, cGone, obj, histVars>>
  /\ UNCHANGED <<schemaVars, scripts, petTable, callerVars>>

\* the keyword arguments the model passes to filter
KwItems ==
  {<<"name", PyString(n)>> : n \in Names} \cup {<<"age", PyInt(a)>> : a \in Ages}
    \cup {<<"d", PyString("x")>>, <<"foo", PyInt(1)>>, <<"_tmp", PyInt(1)>>}
\* one assignment to a declared field
Kwargs1 == {<<x>> : x \in {y \in KwItems : y[1] \in {"name", "age", "d"}}}
\* none, one or two assignments over the items of S, no key twice
KwargsOver(S) ==
  {<<>>} \cup {<<x>> : x \in S} \cup {p \in S \X S : p[1][1] # p[2][1]}
KwargsAll == KwargsOver(KwItems)
KwargsFew ==
  KwargsOver({<<"age", PyInt(30)>>, <<"foo", PyInt(1)>>, <<"_tmp", PyInt(1)>>})

FilterOf(Cmps, Bools, Kws) ==
  /\ \E c \in Cmps, b \in Bools, kw \in Kws :
       LET r == filter(query_tokens, c, b, kw)
       IN  /\ Len(r.tokens) <= MaxTokens
           /\ query_tokens' = r.tokens
           /\ lastOp' = "filter"
           /\ argKw' = kw
           /\ err' = r.err
  /\ argInt' = 0 /\ argCols' = <<>> /\ retRecs' = <<>> /\ retBool' = FALSE
  /\ UNCHANGED <<dbVars, cGone, obj, histVars>>
  /\ UNCHANGED <<schemaVars, scripts, petTable, callerVars>>

\* any filter call
Filter == FilterOf({EQUAL, NOT_EQUAL}, {AND, OR}, KwargsAll)
\* filter calls over fewer arguments
FilterFew == FilterOf({EQUAL}, {AND, OR}, KwargsFew)
\* QueryBuilder(Person).filter(EQUAL, AND, f=v) for a declared field f
FreshFilterEq == query_tokens = <<>> /\ FilterOf({EQUAL}, {AND}, Kwargs1)

\* the numbers the model passes to limit
MaxLimit == 1

Limit ==
  /\ \E n \in 0..MaxLimit :
       /\ Len(limit(query_tokens, PyInt(n))) <= MaxTokens
       /\ query_tokens' = limit(query_tokens, PyInt(n))
       /\ Ret("limit", n, NoError, <<>>, FALSE)
  /\ UNCHANGED <<dbVars, cGone, obj, histVars>>
  /\ UNCHANGED <<schemaVars, scripts, petTable, callerVars>>

(* ---- sqlite: `select <cols> from Person where <tokens>;` ---- *)

\* the integer literals of the model's statements
IntLits == -1..31
IsIntText(x) == \E i \in IntLits : ToString(i) = x
IntOf(x) == CHOOSE i \in IntLits : ToString(i) = x

\* the columns render_schema gave the table
Columns == {"id", "name", "age", "d"}

\* an operand sqlite accepts: a column or an integer literal (any other bare
\* word is `no such column`)
IsOperand(x) == x \in Columns \/ IsIntText(x)

\* SQL values: integer, text, NULL
SqlInt(i) == [k |-> "int", i |-> i, s |-> ""]
SqlText(x) == IF x = NULL THEN [k |-> "null", i |-> 0, s |-> ""]
              ELSE [k |-> "text", i |-> 0, s |-> x]

OperandValue(x, r) ==
  CASE x = "id"   -> SqlInt(r.id)
    [] x = "age"  -> SqlInt(r.age)
    [] x = "name" -> SqlText(r.name)
    [] x = "d"    -> SqlText(r.d)
    [] OTHER      -> SqlInt(IntOf(x))

\* three-valued truth: 0 false, 1 NULL, 2 true
SqlEq(a, b) ==
  IF a.k = "null" \/ b.k = "null" THEN 1
  ELSE IF a.k = "int" /\ b.k = "int" THEN (IF a.i = b.i THEN 2 ELSE 0)
  ELSE IF a.k = "text" /\ b.k = "text" THEN (IF a.s = b.s THEN 2 ELSE 0)
  ELSE IF a.k = "int" THEN (IF ToString(a.i) = b.s THEN 2 ELSE 0)
  ELSE (IF ToString(b.i) = a.s THEN 2 ELSE 0)

Min2(a, b) == IF a <= b THEN a ELSE b
Max2(a, b) == IF a >= b THEN a ELSE b

\* the where clause without its limit, and the limit (-1: none)
HasLimit(tokens) ==
  Len(tokens) >= 2 /\ tokens[Len(tokens) - 1] = LIMIT /\ IsIntText(tokens[Len(tokens)])
WhereBody(tokens) ==
  IF HasLimit(tokens) THEN SubSeq(tokens, 1, Len(tokens) - 2) ELSE tokens
WhereLimit(tokens) == IF HasLimit(tokens) THEN IntOf(tokens[Len(tokens)]) ELSE -1

\* the statement parses and names only columns: terms `operand cmp operand`
\* joined by AND / OR
WellFormed(body) ==
  /\ Len(body) % 4 = 3
  /\ \A k \in 1..Len(body) :
       CASE k % 4 = 1 -> IsOperand(body[k])
         [] k % 4 = 2 -> body[k] \in {EQUAL, NOT_EQUAL}
         [] k % 4 = 3 -> IsOperand(body[k])
         [] OTHER     -> body[k] \in {AND, OR}

NTerms(body) == (Len(body) + 1) \div 4

TermValue(body, j, r) ==
  LET e == SqlEq(OperandValue(body[4 * j - 3], r), OperandValue(body[4 * j - 1], r))
  IN  IF body[4 * j - 2] = EQUAL THEN e ELSE 2 - e

\* AND binds tighter than OR
RECURSIVE AndValue(_, _, _)
AndValue(body, j, r) ==
  IF j < NTerms(body) /\ body[4 * j] = AND
    THEN Min2(TermValue(body, j, r), AndValue(body, j + 1, r))
    ELSE TermValue(body, j, r)

RECURSIVE AndEnd(_, _)
AndEnd(body, j) ==
  IF j < NTerms(body) /\ body[4 * j] = AND THEN AndEnd(body, j + 1) ELSE j

RECURSIVE OrValue(_, _, _)
OrValue(body, j, r) ==
  LET e == AndEnd(body, j)
  IN  IF e < NTerms(body)
        THEN Max2(AndValue(body, j, r), OrValue(body, e + 1, r))
        ELSE AndValue(body, j, r)

\* the rows the where clause keeps, in rowid order, cut at the limit
Matching(tokens, rs) == {r \in rs : OrValue(WhereBody(tokens), 1, r) = 2}
Limited(list, n) == IF n < 0 \/ n >= Len(list) THEN list ELSE SubSeq(list, 1, n)
SelectRows(tokens, rs) == Limited(RowList(Matching(tokens, rs)), WhereLimit(tokens))

\* the record create(**row) builds from a row of `select <columns>`; with
\* columns named, the attributes of the other columns are absent (NoId, NULL)
Projected(r, columns) ==
  IF columns = ALL THEN r
  ELSE [id |-> NoId, name |-> IF "name" \in RangeOf(columns) THEN r.name ELSE NULL,
        age |-> IF "age" \in RangeOf(columns) THEN r.age ELSE NoId,
        d |-> IF "d" \in RangeOf(columns) THEN r.d ELSE NULL]

\* QueryBuilder.select(*args): an argument that is no valid key raises (the
\* raise names `key`, which select does not define: a NameError)
SelectArgs == {<<>>, <<"age">>, <<"foo">>}

SelectOf(Args) ==
  /\ \E args \in Args :
       /\ lastOp' = "select"
       /\ argCols' = args
       /\ IF \E k \in 1..Len(args) : args[k] \notin valid_keyvals
            THEN /\ err' = "NameError"
                 /\ retRecs' = <<>>
                 /\ UNCHANGED <<connected, open, conn>>
            ELSE /\ Connection
                 /\ IF hasTable /\ WellFormed(WhereBody(query_tokens))
                      THEN /\ err' = NoError
                           /\ retRecs' =
                                LET found == SelectRows(query_tokens, rows)
                                    columns == IF Len(args) > 0 THEN args ELSE ALL
                                IN  [k \in 1..Len(found) |-> Projected(found[k], columns)]
                      ELSE /\ err' = "OperationalError"
                           /\ retRecs' = <<>>
  /\ argInt' = 0 /\ argKw' = <<>> /\ retBool' = FALSE
  /\ UNCHANGED <<hasTable, rows, seq, cRows, cSeq, cGone, obj, query_tokens, histVars>>
  /\ UNCHANGED <<schemaVars, scripts, petTable, callerVars>>

Select == SelectOf(SelectArgs)
\* select()
SelectAll == SelectOf({<<>>})

\* the token buffer alone: any sequence of filter and limit calls
NextTokens == NewBuilder \/ FilterFew \/ Limit
SpecTokens == Init /\ [][NextTokens]_vars

\* records are saved; builders run filter(EQUAL, AND, f=v), limit and select
NextSelect ==
  \/ NewRecordOf(Names, Ages, {"x"}) \/ ManagerInit \/ Save
  \/ NewBuilder \/ FreshFilterEq \/ Limit \/ SelectAll
SpecSelect == Init /\ [][NextSelect]_vars


(* ----------------------- claims on the Manager ------------------------ *)

\* the record Manager.create builds from the row of o: id and the fields o holds
AsRow(o) == [id |-> o.id, name |-> o.name, age |-> o.age, d |-> o.d]

\* C1: a save of a record without id assigns a positive id that no earlier
\* save assigned, and get(id) then returns a record with that id and the
\* saved record's field values.
C1_SavedRecordReadsBack ==
  [][(lastOp' = "save" /\ err' = NoError /\ ~obj.hasId)
       => /\ obj'.hasId /\ obj'.id > 0
          /\ obj'.id \notin assigned
          /\ GetRecs(rows', obj'.id) = <<AsRow(obj')>>]_vars

\* C2: a save of a record whose id is in the table raises DuplicateId and
\* leaves the rows, the key counter, the committed data and the record as
\* they were.
C2_DuplicateIdChangesNothing ==
  [][(lastOp' = "save" /\ obj.hasId /\ obj.id \in Ids(rows))
       => /\ err' = "DuplicateId"
          /\ rows' = rows /\ seq' = seq /\ cRows' = cRows /\ cSeq' = cSeq
          /\ obj' = obj]_vars

C2_Witness == lastOp = "save" /\ err = "DuplicateId" /\ Cardinality(rows) = 2

\* C3: after any sequence of Manager calls, has(id) is true exactly for the
\* ids a save assigned and no later Manager.delete removed.
C3_HasIffSavedAndNotDeleted ==
  /\ \A i \in 0..(MaxId + 1) : has(rows, i) <=> i \in live
  /\ lastOp = "has" => (retBool <=> argInt \in live)

C3_Witness == lastOp = "has" /\ retBool /\ removed # {} /\ argInt \in live

\* C4 as claimed: once Manager.delete has removed the row of a saved record,
\* its id is in no later state of the table: has(id) is false, get(id) raises
\* NotFound and no save assigns that id.
C4_DeletedIdNeverBack ==
  /\ \A i \in removed : ~has(rows, i)
  /\ (lastOp = "has" /\ argInt \in removed) => ~retBool
  /\ (lastOp = "get" /\ argInt \in removed) => err = "NotFound"

\* C4 as amended: the same for the ids whose delete the open transaction or
\* the file still records, that is until close() discards the delete before
\* it was committed.
C4_DeletedIdGoneUntilRollback ==
  /\ \A i \in gone : ~has(rows, i)
  /\ (lastOp = "has" /\ argInt \in gone) => ~retBool
  /\ (lastOp = "get" /\ argInt \in gone) => err = "NotFound"

C4_Witness ==
  /\ lastOp = "get" /\ argInt \in gone /\ err = "NotFound"
  /\ rows # {} /\ connected /\ cGone = {}

\* C5: get(id) raises NotFound exactly when no row has that id, returns the
\* record of that row otherwise, and leaves the table as it was.
C5_GetNotFoundIffNoRow ==
  [][lastOp' = "get"
       => /\ (err' = "NotFound") <=> (argInt' \notin Ids(rows))
          /\ argInt' \in Ids(rows) =>
               (err' = NoError /\ retRecs' = <<RowOf(rows, argInt')>>)
          /\ rows' = rows /\ seq' = seq /\ cRows' = cRows /\ cSeq' = cSeq]_vars

C5_Witness == lastOp = "get" /\ err = "NotFound" /\ rows # {} /\ argInt > 0

\* C6: after update(r) of a stored record r, get(r.id) returns r's field
\* values (the changed one and the others) and every other row is as before.
C6_UpdateStoresRecord ==
  [][(lastOp' = "update" /\ obj.hasId /\ obj.id \in Ids(rows))
       => /\ GetRecs(rows', obj.id) = <<AsRow(obj)>>
          /\ {r \in rows' : r.id # obj.id} = {r \in rows : r.id # obj.id}]_vars

(* -------------------- claims on the QueryBuilder --------------------- *)

\* the fields Person declares without the internal marker
Declared == {"name", "age", "d"}

\* Python's row.f == v
FieldEq(r, f, v) ==
  CASE f = "age"  -> v.t = "int" /\ r.age = v.i
    [] f = "name" -> v.t = "str" /\ r.name = v.s
    [] f = "d"    -> v.t = "str" /\ r.d = v.s

\* C7: on an existing table, QueryBuilder(Person).filter(EQUAL, AND, f=v)
\* .select() raises nothing and returns exactly the stored records whose
\* field f equals v, each once.
C7_FilterEqSelectsExactly ==
  [][\A kw \in Kwargs1 :
       (/\ lastOp' = "select" /\ argCols' = <<>> /\ hasTable
        /\ query_tokens = filter(<<>>, EQUAL, AND, kw).tokens)
       => /\ err' = NoError
          /\ RangeOf(retRecs') = {r \in rows : FieldEq(r, kw[1][1], kw[1][2])}
          /\ Len(retRecs') = Cardinality(RangeOf(retRecs'))]_vars

\* C8: filter(EQUAL, AND, f=v).limit(n).select() returns at most n records,
\* each a stored record whose field f equals v.
C8_LimitedSelectIsBounded ==
  [][\A kw \in Kwargs1, n \in 0..MaxLimit :
       (/\ lastOp' = "select" /\ argCols' = <<>> /\ hasTable
        /\ query_tokens = limit(filter(<<>>, EQUAL, AND, kw).tokens, PyInt(n)))
       => /\ Len(retRecs') <= n
          /\ \A k \in 1..Len(retRecs') :
               retRecs'[k] \in rows /\ FieldEq(retRecs'[k], kw[1][1], kw[1][2])]_vars

\* C9: a filter call naming an undeclared or internal-marker field raises
\* InvalidColumn and leaves the token buffer as it was.
C9_InvalidColumnKeepsBuffer ==
  [][(lastOp' = "filter" /\ \E k \in 1..Len(argKw') : argKw'[k][1] \notin Declared)
       => /\ err' = "InvalidColumn"
          /\ query_tokens' = query_tokens]_vars

\* C10: once the buffer holds a limit token, a filter call fails and leaves
\* the buffer, so that the limit stays last.
C10_FilterAfterLimitFails ==
  [][(lastOp' = "filter" /\ LIMIT \in RangeOf(query_tokens))
       => /\ err' # NoError
          /\ query_tokens' = query_tokens]_vars

(* ------------------------ QueryBuilder.delete ------------------------- *)

\* QueryBuilder.delete(): `delete from Person where <tokens>`, the where
\* keyword always there. A limit on a delete parses only when sqlite is built
\* with SQLITE_ENABLE_UPDATE_DELETE_LIMIT: both builds are outcomes.
QDelete ==
  /\ Connection
  /\ \E deleteLimit \in BOOLEAN :
       LET parses == /\ hasTable
                     /\ WellFormed(WhereBody(query_tokens))
                     /\ HasLimit(query_tokens) => deleteLimit
           found == IF parses THEN RangeOf(SelectRows(query_tokens, rows)) ELSE {}
       IN  /\ rows' = rows \ found
           /\ live' = live \ Ids(found)
           /\ gone' = gone \cup Ids(found)
           /\ removed' = removed \cup Ids(found)
           /\ Ret("qdelete", 0, IF parses THEN NoError ELSE "OperationalError",
                  <<>>, FALSE)
  /\ UNCHANGED <<hasTable, seq, cRows, cSeq, cGone, obj, query_tokens, assigned>>
  /\ UNCHANGED <<schemaVars, scripts, petTable, callerVars>>

\* records are saved; builders run filter(EQUAL, AND, f=v), limit and delete
NextDelete ==
  \/ NewRecordOf(Names, Ages, {"x"}) \/ ManagerInit \/ Save
  \/ NewBuilder \/ FreshFilterEq \/ Limit \/ QDelete
SpecDelete == Init /\ [][NextDelete]_vars

(* ------------- the proxy under callers that interleave --------------- *)

\* Each caller runs execute(sql) or close() one line at a time; pc[c] is the
\* method and the line caller c is about to run:
\*   enter   line 43   if self.connected:            (close only)
\*   test    line 35   if self.connected:
\*   connect line 37   self._connection = sqlite3.connect(...)
\*   set     line 39   self.connected = True
\*   ret     line 36 / 40   return self._connection
\*   run     line 51   <connection>.execute(sql, args)   (execute)
\*           line 44   <connection>.close()              (close)
\*   reset   line 45   self.connected = False            (close only)
\* The statement a caller executes here is a select: it touches no row.
resVars == <<lastOp, argInt, argKw, argCols, err, retRecs, retBool>>
dataVars == <<hasTable, rows, seq, cRows, cSeq, cGone, obj, query_tokens, histVars,
              schemaVars, scripts, petTable>>

At(c, op, line) == pc[c] = [op |-> op, at |-> line]
Goto(c, line) == pc' = [pc EXCEPT ![c].at = line]

\* caller c calls db.execute(sql) or db.close()
Call(c) ==
  /\ pc[c] = Idle
  /\ \E op \in {"execute", "close"} :
       pc' = [pc EXCEPT ![c] = [op |-> op, at |-> IF op = "close" THEN "enter" ELSE "test"]]
  /\ raced' = (raced \/ \E d \in Callers \ {c} : pc[d] # Idle)
  /\ UNCHANGED <<dbVars, dataVars, resVars, got>>

\* line 43
CloseEnter(c) ==
  /\ At(c, "close", "enter")
  /\ Goto(c, IF connected THEN "test" ELSE "reset")
  /\ UNCHANGED <<dbVars, dataVars, resVars, got, raced>>

\* line 35
GetTest(c) ==
  /\ \E op \in {"execute", "close"} : At(c, op, "test")
  /\ Goto(c, IF MustConnect(connected) THEN "connect" ELSE "ret")
  /\ UNCHANGED <<dbVars, dataVars, resVars, got, raced>>

\* lines 37-38
GetConnect(c) ==
  /\ \E op \in {"execute", "close"} : At(c, op, "connect")
  /\ open # Handles
  /\ open' = open \cup {NewConn(open)}
  /\ conn' = NewConn(open)
  /\ Goto(c, "set")
  /\ UNCHANGED <<connected, hasTable, rows, seq, cRows, cSeq, cGone, obj, query_tokens,
                 histVars, schemaVars, scripts, petTable, resVars, got, raced>>

\* line 39
GetSet(c) ==
  /\ \E op \in {"execute", "close"} : At(c, op, "set")
  /\ connected' = TRUE
  /\ Goto(c, "ret")
  /\ UNCHANGED <<open, conn, hasTable, rows, seq, cRows, cSeq, cGone, obj, query_tokens,
                 histVars, schemaVars, scripts, petTable, resVars, got, raced>>

\* lines 36 and 40
GetReturn(c) ==
  /\ \E op \in {"execute", "close"} : At(c, op, "ret")
  /\ got' = [got EXCEPT ![c] = conn]
  /\ Goto(c, "run")
  /\ UNCHANGED <<dbVars, dataVars, resVars, raced>>

\* line 51: the statement runs on the connection the property returned; a
\* closed connection raises ProgrammingError
RunExecute(c) ==
  /\ At(c, "execute", "run")
  /\ Ret("execute", got[c], IF got[c] \in open THEN NoError ELSE "ProgrammingError",
         <<>>, FALSE)
  /\ pc' = [pc EXCEPT ![c] = Idle]
  /\ UNCHANGED <<dbVars, dataVars, got, raced>>

\* line 44: closing a connection again is allowed
RunClose(c) ==
  /\ At(c, "close", "run")
  /\ open' = open \ {got[c]}
  /\ Goto(c, "reset")
  /\ UNCHANGED <<connected, conn, hasTable, rows, seq, cRows, cSeq, cGone, obj,
                 query_tokens, histVars, schemaVars, scripts, petTable, resVars, got, raced>>

\* line 45
CloseReset(c) ==
  /\ At(c, "close", "reset")
  /\ connected' = FlagAfterClose(connected)
  /\ Ret("close", 0, NoError, <<>>, FALSE)
  /\ pc' = [pc EXCEPT ![c] = Idle]
  /\ UNCHANGED <<open, conn, hasTable, rows, seq, cRows, cSeq, cGone, obj, query_tokens,
                 histVars, schemaVars, scripts, petTable, got, raced>>

NextCallers ==
  \E c \in Callers :
    \/ Call(c) \/ CloseEnter(c) \/ GetTest(c) \/ GetConnect(c) \/ GetSet(c)
    \/ GetReturn(c) \/ RunExecute(c) \/ RunClose(c) \/ CloseReset(c)
SpecCallers == Init /\ [][NextCallers]_vars

(* --------------------------- transactions ----------------------------- *)

\* writes of one record, commits, closes and Manager constructions for both
\* classes
NextTx ==
  \/ NewPerson \/ ManagerInit \/ PetManagerInit
  \/ Save \/ Update \/ Delete \/ Commit \/ Close
SpecTx == Init /\ [][NextTx]_vars

(* --------------------------- render_schema ---------------------------- *)

\* the classes render_schema is called with: a name and up to MaxFields
\* attributes with different keys; bool and function stand for the values that
\* are no datatype (another type, a method)
ClassNames == {"Person", "Pet"}
AttrItems == {"name", "age", "_tmp"} \X {"str", "int", "float", "bool", "function"}
ItemSeqs ==
  {it \in UNION {[1..n -> AttrItems] : n \in 0..MaxFields} :
     \A j, k \in 1..Len(it) : j # k => it[j][1] # it[k][1]}
Models == {[name |-> n, items |-> it] : n \in ClassNames, it \in ItemSeqs}

RenderSchema ==
  /\ retSchema' = render_schema(model)
  /\ Ret("render_schema", 0, NoError, <<>>, FALSE)
  /\ UNCHANGED <<dbVars, cGone, obj, query_tokens, histVars, model, scripts, petTable,
                 callerVars>>

\* render_schema(m) for each class m
InitSchema == \E m \in Models : InitOf(m)
NextSchema == RenderSchema
SpecSchema == InitSchema /\ [][NextSchema]_vars

(* --------------------------- the whole model -------------------------- *)

Next ==
  \/ RecordStep \/ ManagerStep \/ PetManagerInit \/ Commit \/ Close
  \/ NewBuilder \/ Filter \/ Limit \/ Select \/ QDelete
  \/ RenderSchema \/ NextCallers
Spec == Init /\ [][Next]_vars

(* ------------------ claims on delete, update, schema ------------------ *)

\* C11: on an existing table QueryBuilder.delete() raises nothing and removes
\* exactly the stored rows that satisfy the buffer's predicates: every row
\* when the buffer is empty, the rows whose field f equals v after
\* filter(EQUAL, AND, f=v); every other row stays as it was.
C11_DeleteRemovesExactlyMatching ==
  [][(lastOp' = "qdelete" /\ hasTable) =>
       /\ query_tokens = <<>> => err' = NoError /\ rows' = {}
       /\ \A kw \in Kwargs1 :
            query_tokens = filter(<<>>, EQUAL, AND, kw).tokens
              => /\ err' = NoError
                 /\ rows' = {r \in rows : ~FieldEq(r, kw[1][1], kw[1][2])}]_vars

\* C12: Manager.update(record) and Manager.delete(record) change no row but
\* the one whose id equals record.id; when no row has that id they raise
\* nothing and leave the table, the key counter and the committed data as
\* they were.
C12_UpdateDeleteTouchOnlyOwnRow ==
  [][(lastOp' \in {"update", "delete"} /\ obj.hasId) =>
       /\ {r \in rows' : r.id # obj.id} = {r \in rows : r.id # obj.id}
       /\ ~has(rows, obj.id) =>
            /\ err' = NoError
            /\ rows' = rows /\ seq' = seq /\ cRows' = cRows /\ cSeq' = cSeq]_vars
\* an update for an id no row has, on a table that holds other rows
C12_Witness ==
  /\ lastOp = "update" /\ err = NoError
  /\ obj.hasId /\ ~has(rows, obj.id) /\ rows # {}

\* a declared field that is persisted: a primitive type, no internal marker
Persisted(item) ==
  item[2] \in {"str", "int", "float"} /\ Chars(item[1])[1] # "_"
SqlType(t) == CASE t = "str" -> "text" [] t = "int" -> "integer" [] t = "float" -> "real"
\* `, <field> <type>` for each persisted field from the k-th on, the first
\* one without the comma
RECURSIVE ColumnsFrom(_, _, _)
ColumnsFrom(items, k, first) ==
  IF k > Len(items) THEN ""
  ELSE IF Persisted(items[k])
    THEN (IF first THEN "" ELSE ", ") \o items[k][1] \o " " \o SqlType(items[k][2])
           \o ColumnsFrom(items, k + 1, FALSE)
    ELSE ColumnsFrom(items, k + 1, first)

\* C13: render_schema returns `create table <Name> (id integer primary key
\* autoincrement, <field> <type>, ...);` with one column per declared field of
\* a primitive type whose name does not start with the internal marker, in
\* declaration order, string as text, integer as integer, real as real; for
\* Person with name: string, age: integer it is exactly the statement below.
C13_SchemaText ==
  lastOp = "render_schema" =>
    /\ retSchema = "create table " \o model.name
                     \o " (id integer primary key autoincrement, "
                     \o ColumnsFrom(model.items, 1, TRUE) \o ");"
    /\ (model = [name |-> "Person", items |-> << <<"name", "str">>, <<"age", "int">> >>])
         => retSchema =
              "create table Person (id integer primary key autoincrement, name text, age integer);"
\* the schema of a class with a persisted field after a marked one
C13_Witness ==
  /\ lastOp = "render_schema"
  /\ model = [name |-> "Pet", items |-> << <<"_tmp", "int">>, <<"age", "float">> >>]
  /\ retSchema = "create table Pet (id integer primary key autoincrement, age real);"

(* ---------------------- claims on the Database ------------------------ *)

\* the operations that run a statement on the proxy (a record without id
\* makes update and delete raise before they reach it)
UsesConnection(op, o) ==
  \/ op \in {"commit", "Manager", "all", "get", "has", "save"}
  \/ op \in {"update", "delete"} /\ o.hasId

\* C14: a close right after a close, and a commit right after a commit,
\* leave the proxy and the stored data as the first call left them, whatever
\* the state before; after close the proxy is disconnected with no connection
\* open, and the next operation that runs a statement opens a connection.
C14_CloseCommitIdempotent ==
  [][/\ (lastOp = "close" /\ lastOp' = "close") => UNCHANGED dbVars
     /\ (lastOp = "commit" /\ lastOp' = "commit") => UNCHANGED dbVars
     /\ lastOp' = "close" => ~connected' /\ open' = {}
     /\ (~connected /\ UsesConnection(lastOp', obj))
          => connected' /\ open' = {conn'} /\ open = {}]_vars
\* a close that discarded pending rows and kept committed ones
C14_Witness ==
  /\ lastOp = "close" /\ ~connected
  /\ cRows # {} /\ rows = cRows /\ Ids(cRows) # assigned

(* ------------------- claims on the token buffer ----------------------- *)

\* the buffer ends with `field comparator literal`
EndsWithTerm(tokens) ==
  LET n == Len(tokens)
  IN  /\ n >= 3
      /\ tokens[n - 2] \in Declared
      /\ tokens[n - 1] \in {EQUAL, NOT_EQUAL}
      /\ tokens[n] \notin {AND, OR, EQUAL, NOT_EQUAL, LIMIT}
\* the buffer ends with `limit number`
EndsWithLimit(tokens) ==
  LET n == Len(tokens)
  IN  n >= 2 /\ tokens[n - 1] = LIMIT /\ IsIntText(tokens[n])

\* C15: after any sequence of filter and limit calls the buffer is empty or
\* ends with a complete predicate term or with a limit and its number: no
\* dangling connective, no truncated predicate, no token but a trailing
\* connective stripped.
C15_BufferEndsComplete ==
  \/ query_tokens = <<>>
  \/ EndsWithTerm(query_tokens)
  \/ EndsWithLimit(query_tokens)

(* ------------------------- claims on the ids -------------------------- *)

\* C16: in every interleaving of save and delete calls, the id a save
\* assigns is larger than every id assigned before, and is no id of a row
\* that was deleted.
C16_IdsIncreaseNeverReused ==
  [][(lastOp' = "save" /\ err' = NoError) =>
       /\ obj'.hasId
       /\ \A i \in assigned : obj'.id > i
       /\ obj'.id \notin removed
       /\ assigned' = assigned \cup {obj'.id}]_vars
\* a save right after the row with the largest id was deleted
C16_Witness ==
  /\ lastOp = "save" /\ err = NoError
  /\ removed = {1} /\ obj.id = 2 /\ Ids(rows) = {2}

\* C17: a record has no id before its first successful save, and a save,
\* update or delete on a record that has an id leaves that id as it is, also
\* a save after a delete and a save of a record whose pre-set id is not in
\* the table.
C17_RecordIdPermanent ==
  [][/\ (lastOp' = "new") => ~obj'.hasId
     /\ (lastOp' \in {"save", "update", "delete"} /\ ~obj.hasId /\ err' # NoError)
          => ~obj'.hasId
     /\ (lastOp' \in {"save", "update", "delete"} /\ obj.hasId)
          => obj'.hasId /\ obj'.id = obj.id]_vars

(* ---------------------- claims on transactions ------------------------ *)

\* C18: save, update and delete leave the committed rows and key counter as
\* they are; the committed state changes only in commit() and in the
\* construction of a Manager whose table is absent (executescript), which
\* make it equal to the pending state; close() on a connected proxy drops the
\* pending writes and leaves the committed state.
C18_WritesPendingUntilCommit ==
  [][/\ lastOp' \in {"save", "update", "delete"} => cRows' = cRows /\ cSeq' = cSeq
     /\ (cRows' # cRows \/ cSeq' # cSeq) =>
          /\ \/ lastOp' = "commit"
             \/ lastOp' = "Manager" /\ ~hasTable
             \/ lastOp' = "Manager(Pet)" /\ ~petTable
          /\ cRows' = rows /\ cSeq' = seq
     /\ (lastOp' = "close" /\ connected) =>
          rows' = cRows /\ seq' = cSeq /\ cRows' = cRows /\ cSeq' = cSeq]_vars
\* a close that dropped a pending save after an earlier save was committed
\* by the construction of the second Manager
C18_Witness ==
  /\ lastOp = "close" /\ petTable
  /\ Cardinality(cRows) = 1 /\ rows = cRows /\ Cardinality(assigned) = 2

(* ------------------ claims on the connection proxy -------------------- *)

\* C19: Database(...) opens no connection. As long as no caller entered a
\* method while another was inside one: a connection is opened only while
\* the proxy is disconnected and none is open, at most one connection is open,
\* and every statement runs without error on the one open connection, which
\* is Database._connection. (With callers that interleave this fails: see
\* C19_Witness.)
C19_SerializedSingleConnection ==
  /\ open = {} /\ ~connected
  /\ [][~raced' =>
          /\ Cardinality(open') <= 1
          /\ open' \ open # {} => ~connected /\ open = {}
          /\ (\E c \in Callers : At(c, "execute", "run") /\ pc'[c] = Idle)
               => err' = NoError /\ open = {argInt'} /\ conn = argInt']_vars
\* two callers raced on the disconnected proxy: two connections are open with
\* both callers back, one of them out of the proxy's reach
C19_Witness ==
  /\ raced /\ Cardinality(open) = 2
  /\ \A c \in Callers : pc[c] = Idle

(* ------------------ claims on the Manager constructor ----------------- *)

\* C20: a Manager construction for Person runs the create-table script
\* exactly when the catalog has no table Person; the table is there
\* afterwards and stays, so that the script runs at most once; a construction for an existing table changes no row, pending or
\* committed, and no key counter.
C20_CreateTableOnlyWhenAbsent ==
  [][/\ lastOp' = "Manager" =>
          /\ ~hasTable => scripts' = Append(scripts, render_schema(Person))
          /\ hasTable => scripts' = scripts
          /\ hasTable'
          /\ rows' = rows /\ seq' = seq
          /\ hasTable => cRows' = cRows /\ cSeq' = cSeq
     /\ hasTable => hasTable'
     /\ Cardinality({k \in 1..Len(scripts') : scripts'[k] = render_schema(Person)}) <= 1]_vars
\* a construction that found the table, with rows pending and committed
C20_Witness ==
  /\ lastOp = "Manager" /\ hasTable /\ scripts = <<render_schema(Person)>>
  /\ cRows # {} /\ rows # cRows

====
